---- MODULE Spec2Model ----
(***************************************************************************)
(* maildog: the dispatch resolution and retry pipeline.                    *)
(*                                                                         *)
(*   src/lib/maildog-stack.ts             the stack: config compilation,   *)
(*                                        dispatcher/scheduler wiring      *)
(*   src/lib/maildog-stack.dispatcher.ts  the dispatcher handler ("lib")   *)
(*   src/unnamed/part_000                 the dispatcher handler ("part")  *)
(*                                                                         *)
(* A string is a sequence of one-character strings, so that slicing,       *)
(* concatenation and replacement are computed as the code computes them.   *)
(***************************************************************************)
EXTENDS Integers, Sequences, FiniteSets, TLC

VARIABLES
    config,      \* props.config.domains: the authored rule set
    table,       \* process.env.CONFIG_PER_KEY_PREFIX, compiled from config
    variant,     \* which dispatcher handler is deployed: "lib" or "part"
    last,        \* the outcome of the latest direct invocation of the handler
    mailFeed,    \* notifications published on the MailFeed topic, not yet delivered
    deadLetterQueue, \* the entries held by the DeadLetterQueue
    attempts,    \* per notification id: handler invocations made for it
    published,   \* notification ids handed out so far
    history,     \* per notification id: its message, origin and fate
    lastDrain,   \* the latest scheduler run: what it found and returned
    inflight,    \* per execution slot: the handler invocation running in it
    ruleset      \* the rules of the stack's ReceiptRuleSet, once constructed

vars == <<config, table, variant, last, mailFeed, deadLetterQueue,
          attempts, published, history, lastDrain, inflight, ruleset>>

----------------------------------------------------------------------------
(* Bounds *)

\* longest destination list (alias "to", fallbackEmails) of a configuration
MaxTo == 2
\* most records in one notification envelope
MaxRecords == 2
\* most notifications ever published on the MailFeed topic in one behaviour
MaxPublished == 2
\* largest batch a scheduler run receives from the DeadLetterQueue
MaxBatch == 2
\* most entries the DeadLetterQueue holds when a scheduler run starts
MaxQueued == 3
\* most handler invocations running at the same time
MaxInflight == 2
\* most aliases of a domain rule whose receipt rules are generated
MaxAliases == 201

----------------------------------------------------------------------------
(* Strings *)

\* the value of a JavaScript "a + b" on strings
Cat(a, b) == a \o b

\* s.slice(from, to) with 0-based, end-exclusive indices 0 <= from <= to <= Len(s)
Slice(s, from, to) == SubSeq(s, from + 1, to)

\* whether pat occurs in s at 0-based position p
OccursAt(s, pat, p) ==
    /\ p + Len(pat) <= Len(s)
    /\ \A k \in 1..Len(pat) : s[p + k] = pat[k]

\* s.indexOf(pat): the first position of pat in s, -1 when there is none
IndexOf(s, pat) ==
    IF \E p \in 0..Len(s) : OccursAt(s, pat, p)
    THEN CHOOSE p \in 0..Len(s) :
            /\ OccursAt(s, pat, p)
            /\ \A q \in 0..(p - 1) : ~OccursAt(s, pat, q)
    ELSE -1

\* s.lastIndexOf(pat)
LastIndexOf(s, pat) ==
    IF \E p \in 0..Len(s) : OccursAt(s, pat, p)
    THEN CHOOSE p \in 0..Len(s) :
            /\ OccursAt(s, pat, p)
            /\ \A q \in (p + 1)..Len(s) : ~OccursAt(s, pat, q)
    ELSE -1

\* s.replace(pat, '') with a string pattern: only the first occurrence goes
ReplaceFirstWithEmpty(s, pat) ==
    LET p == IndexOf(s, pat)
    IN  IF p = -1 THEN s
        ELSE Cat(Slice(s, 0, p), Slice(s, p + Len(pat), Len(s)))

----------------------------------------------------------------------------
(* The values the model's strings take *)

DomainD  == <<"d">>                \* a configured mail domain
DomainU  == <<"u">>                \* a mail domain no rule is configured for
Noreply  == <<"n", "r">>           \* 'noreply'
At       == <<"@">>
Slash    == <<"/">>
Plus     == <<"+">>
Bucket   == <<"b", "k">>           \* the name of the stack's bucket
DestA    == <<"a", "@", "x">>      \* forwarding addresses
DestB    == <<"b", "@", "x">>
Dests    == {DestA, DestB}
AliasI   == <<"i">>                \* alias local-parts: 'info', and the empty one
AliasNone == <<>>
AliasNames == <<AliasI, AliasNone>>

\* every sequence over S of length at most n
SeqsUpTo(S, n) == UNION {[1..k -> S] : k \in 0..n}

----------------------------------------------------------------------------
(* MailDogConfig: src/lib/maildog-stack.ts, lines 14-30 *)

\* Partial<MailDogAliasRule>: "to" may be missing
AliasRules ==
    {[hasTo |-> FALSE, to |-> <<>>]}
        \cup {[hasTo |-> TRUE, to |-> t] : t \in SeqsUpTo(Dests, MaxTo)}

\* the "alias" records: for each alias name, absent or one rule; the entries
\* are kept as the sequence Object.entries yields
RECURSIVE AliasRecords(_)
AliasRecords(k) ==
    IF k = 0 THEN {<<>>}
    ELSE LET rest == AliasRecords(k - 1)
         IN  rest \cup {Append(r, <<AliasNames[k], e>>) : r \in rest, e \in AliasRules}

\* Partial<MailDogDomainRule>: the fields the compilation reads
DomainRules ==
    [hasFromEmail : {FALSE}, fromEmail : {<<>>},
     hasFallbackEmails : {FALSE}, fallbackEmails : {<<>>},
     alias : AliasRecords(Len(AliasNames))]
    \cup
    [hasFromEmail : {FALSE}, fromEmail : {<<>>},
     hasFallbackEmails : {TRUE}, fallbackEmails : SeqsUpTo(Dests, MaxTo),
     alias : AliasRecords(Len(AliasNames))]

\* props.config.domains, as Object.entries yields it: one rule for DomainD,
\* or one rule without aliases for the domain ''
EmptyDomain == <<>>

Configs ==
    {<< <<DomainD, r>> >> : r \in DomainRules}
    \cup {<< <<EmptyDomain, r>> >> : r \in {x \in DomainRules : x.alias = <<>>}}

----------------------------------------------------------------------------
(* The config compilation: src/lib/maildog-stack.ts *)

\* Object.fromEntries: of the entries with one key, the last one wins
FromEntries(es) ==
    [k \in {es[i][1] : i \in 1..Len(es)} |->
        LET at == {i \in 1..Len(es) : es[i][1] = k}
            i == CHOOSE i \in at : \A j \in at : j <= i
        IN  es[i][2]]

\* lines 43-55: the defaults of a domain rule
domainRuleEntries(domains) ==
    [i \in 1..Len(domains) |->
        LET rule == domains[i][2]
        IN  <<domains[i][1],
              [fromEmail |-> IF rule.hasFromEmail THEN rule.fromEmail ELSE Noreply,
               fallbackEmails |-> IF rule.hasFallbackEmails
                                  THEN rule.fallbackEmails ELSE <<>>,
               alias |-> rule.alias]>>]

\* lines 130-141: the alias entries, then the fallback under the alias ''
forwardMappingEntries(domain, rule) ==
    LET entries == rule.alias \o
                   (IF Len(rule.fallbackEmails) > 0
                    THEN << <<AliasNone, [hasTo |-> TRUE, to |-> rule.fallbackEmails]>> >>
                    ELSE <<>>)
    IN  [i \in 1..Len(entries) |->
            <<Cat(Cat(entries[i][1], At), domain),
              IF entries[i][2].hasTo THEN entries[i][2].to ELSE <<>> >>]

\* lines 126-143: one DispatcherConfig, under the key '<domain>/'
configPerKeyPrefixEntry(domain, rule) ==
    <<Cat(domain, Slash),
      [fromEmail |-> Cat(Cat(rule.fromEmail, At), domain),
       forwardMapping |-> FromEntries(forwardMappingEntries(domain, rule))]>>

\* lines 123-146: process.env.CONFIG_PER_KEY_PREFIX
CONFIG_PER_KEY_PREFIX(domains) ==
    LET es == domainRuleEntries(domains)
    IN  FromEntries([i \in 1..Len(es) |-> configPerKeyPrefixEntry(es[i][1], es[i][2])])

----------------------------------------------------------------------------
(* JavaScript values inside a forwardMapping handed to the forwarder: a list *)
(* element is a string, an array of strings, or undefined                    *)

Str(s)    == [t |-> "string", v |-> <<s>>]
Arr(a)    == [t |-> "array", v |-> a]
Undefined == [t |-> "undefined", v |-> <<>>]

\* a list of strings, as a list of JavaScript values
Strs(list) == [k \in 1..Len(list) |-> Str(list[k])]

----------------------------------------------------------------------------
(* The notification envelope: SNSEvent, SNSEventRecord, SESMessage *)

MessageIdM == <<"m">>
LocalGhost == <<"g">>                      \* a local-part no alias is named for
LocalTagged == <<"i", "+", "t">>           \* 'info+tag'
Locals == {AliasI, AliasNone, LocalGhost, LocalTagged}

\* JSON.parse(record.Sns.Message) of a receive notification for local@domain,
\* stored by the S3 action (maildog-stack.ts, lines 249-253) under
\* '<domain>/<messageId>'
SesMessage(local, domain, messageId) ==
    [parses |-> TRUE, hasMail |-> TRUE, hasReceipt |-> TRUE,
     messageId |-> messageId,
     recipients |-> << Cat(Cat(local, At), domain) >>,
     actionType |-> "S3",
     hasObjectKey |-> TRUE, objectKey |-> Cat(Cat(domain, Slash), messageId),
     hasBucketName |-> TRUE, bucketName |-> Bucket]

GoodMessages ==
    {SesMessage(l, d, m) : l \in Locals, d \in {DomainD, DomainU},
                           m \in {MessageIdM, DomainD}}

\* one receive notification, and what can be wrong with a payload
BaseMessage == SesMessage(AliasI, DomainD, MessageIdM)

BadMessages ==
    {[BaseMessage EXCEPT !.parses = FALSE],
     [BaseMessage EXCEPT !.hasMail = FALSE],
     [BaseMessage EXCEPT !.hasReceipt = FALSE],
     [BaseMessage EXCEPT !.hasMail = FALSE, !.hasReceipt = FALSE],
     [BaseMessage EXCEPT !.actionType = "Lambda"],
     [BaseMessage EXCEPT !.actionType = "SNS"],
     [BaseMessage EXCEPT !.hasObjectKey = FALSE, !.objectKey = <<>>],
     [BaseMessage EXCEPT !.hasBucketName = FALSE, !.bucketName = <<>>],
     [BaseMessage EXCEPT !.objectKey = <<>>],
     [BaseMessage EXCEPT !.bucketName = <<>>]}

Messages == GoodMessages \cup BadMessages

SnsRecord(message) == [EventSource |-> "aws:sns", Sns |-> [Message |-> message]]

\* the event SNS hands the subscribed function for one published message
SnsEvent(message) == [Records |-> << SnsRecord(message) >>]

\* the envelopes a handler may be invoked with
Envelopes ==
    {SnsEvent(m) : m \in Messages}
    \cup {[Records |-> << [EventSource |-> src, Sns |-> [Message |-> BaseMessage]] >>]
            : src \in {"aws:s3", "aws:ses"}}
    \cup {[Records |-> [k \in 1..n |-> SnsRecord(BaseMessage)]]
            : n \in (0..MaxRecords) \ {1}}

----------------------------------------------------------------------------
(* The event validation of the dispatcher: maildog-stack.dispatcher.ts,     *)
(* lines 15-56 (part_000, lines 22-68, holds the same three functions)      *)

\* lines 15-20
isSESMessage(message) == message.hasMail /\ message.hasReceipt

\* a receipt check that forgets the action type
isSESReceiptS3Action_AnyType(message) ==
    /\ message.hasObjectKey
    /\ message.hasBucketName

\* lines 22-30
isSESReceiptS3Action(message) ==
    /\ message.actionType = "S3"
    /\ message.hasObjectKey
    /\ message.hasBucketName

\* lines 32-56: the message, or the error thrown
getSESMessage(event) ==
    IF Len(event.Records) # 1
    THEN [error |-> "OnlyOneRecord", message |-> BaseMessage]
    ELSE LET record == event.Records[1]
         IN  IF record.EventSource # "aws:sns"
             THEN [error |-> "UnexpectedEventSource", message |-> BaseMessage]
             ELSE IF ~record.Sns.Message.parses
             THEN [error |-> "JsonParse", message |-> BaseMessage]
             ELSE IF ~isSESMessage(record.Sns.Message)
             THEN [error |-> "UnexpectedMessage", message |-> BaseMessage]
             ELSE [error |-> "none", message |-> record.Sns.Message]

\* lines 65-82: the try block of the handler; what it throws, "none" if nothing
validationError(event) ==
    LET got == getSESMessage(event)
    IN  IF got.error # "none" THEN got.error
        ELSE IF ~isSESReceiptS3Action(got.message) THEN "NotS3Action"
        ELSE "none"

----------------------------------------------------------------------------
(* The outcome of one handler invocation *)

\* overrides.config when the forwarder is never called
NoConfig ==
    [hasForwardMapping |-> FALSE, forwardMapping |-> <<>>,
     hasFromEmail |-> FALSE, fromEmail |-> <<>>,
     hasSubjectPrefix |-> FALSE, subjectPrefix |-> <<>>,
     allowPlusSign |-> FALSE, emailKeyPrefix |-> <<>>, emailBucket |-> <<>>]

\* the handler threw: the error, and whether its catch block logged it
Threw(error, logged) ==
    [threw |-> TRUE, error |-> error, logged |-> logged,
     forwarderCalls |-> 0, sesRecords |-> <<>>, overrides |-> NoConfig]

\* the handler called LambdaForwarder.handler(sesEvent, context, callback, overrides)
Forwarded(message, overridesConfig) ==
    [threw |-> FALSE, error |-> "none", logged |-> FALSE,
     forwarderCalls |-> 1,
     sesRecords |-> << [eventSource |-> "aws:ses", eventVersion |-> "1.0",
                        ses |-> message] >>,
     overrides |-> overridesConfig]

----------------------------------------------------------------------------
(* The handler of maildog-stack.dispatcher.ts, lines 61-143 *)

\* lines 91-94 (part_000, lines 113-116)
emailKeyPrefixOf(message) == ReplaceFirstWithEmpty(message.objectKey, message.messageId)

\* lines 110-117 without 'allowPlusSign: true'
overridesLib_NoPlusSign(tbl, message) ==
    LET emailKeyPrefix == emailKeyPrefixOf(message)
        known == emailKeyPrefix \in DOMAIN tbl
    IN  [hasForwardMapping |-> known,
         forwardMapping |->
            IF known
            THEN [k \in DOMAIN tbl[emailKeyPrefix].forwardMapping |->
                    Strs(tbl[emailKeyPrefix].forwardMapping[k])]
            ELSE <<>>,
         hasFromEmail |-> known,
         fromEmail |-> IF known THEN tbl[emailKeyPrefix].fromEmail ELSE <<>>,
         hasSubjectPrefix |-> FALSE, subjectPrefix |-> <<>>,
         allowPlusSign |-> FALSE,
         emailKeyPrefix |-> emailKeyPrefix,
         emailBucket |-> message.bucketName]

\* lines 110-117: { ...config[emailKeyPrefix], allowPlusSign, emailKeyPrefix, emailBucket }
overridesLib(tbl, message) ==
    LET emailKeyPrefix == emailKeyPrefixOf(message)
        known == emailKeyPrefix \in DOMAIN tbl
    IN  [hasForwardMapping |-> known,
         forwardMapping |->
            IF known
            THEN [k \in DOMAIN tbl[emailKeyPrefix].forwardMapping |->
                    Strs(tbl[emailKeyPrefix].forwardMapping[k])]
            ELSE <<>>,
         hasFromEmail |-> known,
         fromEmail |-> IF known THEN tbl[emailKeyPrefix].fromEmail ELSE <<>>,
         hasSubjectPrefix |-> FALSE, subjectPrefix |-> <<>>,
         allowPlusSign |-> TRUE,
         emailKeyPrefix |-> emailKeyPrefix,
         emailBucket |-> message.bucketName]

handlerLib(tbl, event) ==
    IF validationError(event) # "none"
    THEN Threw(validationError(event), TRUE)
    ELSE LET message == getSESMessage(event).message
         IN  Forwarded(message, overridesLib(tbl, message))

----------------------------------------------------------------------------
(* The handler of part_000, lines 77-246 *)

\* line 178
atDomainOf(emailKeyPrefix) == Cat(At, Slice(emailKeyPrefix, 0, Len(emailKeyPrefix) - 1))

\* line 179, for a prefix the table knows: undefined when the key is missing
forwardDestinationOf(tbl, emailKeyPrefix) ==
    LET atDomain == atDomainOf(emailKeyPrefix)
        mapping == tbl[emailKeyPrefix].forwardMapping
    IN  IF atDomain \in DOMAIN mapping THEN Arr(mapping[atDomain]) ELSE Undefined

\* lines 190-222 with the whole object key handed as emailKeyPrefix
overridesPart_KeyAsPrefix(tbl, message) ==
    LET emailKeyPrefix == emailKeyPrefixOf(message)
        atDomain == atDomainOf(emailKeyPrefix)
    IN  [hasForwardMapping |-> TRUE,
         forwardMapping |->
            [k \in {atDomain} |-> << forwardDestinationOf(tbl, emailKeyPrefix) >>],
         hasFromEmail |-> TRUE,
         fromEmail |-> tbl[emailKeyPrefix].fromEmail,
         hasSubjectPrefix |-> TRUE, subjectPrefix |-> <<>>,
         allowPlusSign |-> TRUE,
         emailKeyPrefix |-> message.objectKey,
         emailBucket |-> message.bucketName]

\* lines 190-222
overridesPart(tbl, message) ==
    LET emailKeyPrefix == emailKeyPrefixOf(message)
        atDomain == atDomainOf(emailKeyPrefix)
    IN  [hasForwardMapping |-> TRUE,
         forwardMapping |->
            [k \in {atDomain} |-> << forwardDestinationOf(tbl, emailKeyPrefix) >>],
         hasFromEmail |-> TRUE,
         fromEmail |-> tbl[emailKeyPrefix].fromEmail,
         hasSubjectPrefix |-> TRUE, subjectPrefix |-> <<>>,
         allowPlusSign |-> TRUE,
         emailKeyPrefix |-> emailKeyPrefix,
         emailBucket |-> message.bucketName]

\* part_000 with line 179 also throwing when the wildcard key is missing
handlerPart_ThrowsOnMissingWildcard(tbl, event) ==
    IF validationError(event) # "none"
    THEN Threw(validationError(event), TRUE)
    ELSE LET message == getSESMessage(event).message
             emailKeyPrefix == emailKeyPrefixOf(message)
         IN  IF emailKeyPrefix \notin DOMAIN tbl
             THEN Threw("TypeError", FALSE)
             ELSE IF forwardDestinationOf(tbl, emailKeyPrefix) = Undefined
             THEN Threw("TypeError", FALSE)
             ELSE Forwarded(message, overridesPart(tbl, message))

handlerPart(tbl, event) ==
    IF validationError(event) # "none"
    THEN Threw(validationError(event), TRUE)
    ELSE LET message == getSESMessage(event).message
         IN  IF emailKeyPrefixOf(message) \notin DOMAIN tbl
             \* line 179 reads a property of undefined, outside the try block
             THEN Threw("TypeError", FALSE)
             ELSE Forwarded(message, overridesPart(tbl, message))

\* the handler the stack deploys
handler(v, tbl, event) ==
    IF v = "lib" THEN handlerLib(tbl, event) ELSE handlerPart(tbl, event)

----------------------------------------------------------------------------
(* The Destination Resolver and the Delivery Invoker.  The repository hands  *)
(* both to LambdaForwarder.handler, whose code it does not hold; they are    *)
(* modelled from the specification (4.3, 4.4).                               *)

\* the local-part and the domain of an address, split at its last '@'
localPartOf(address) ==
    LET p == LastIndexOf(address, At)
    IN  IF p = -1 THEN address ELSE Slice(address, 0, p)

domainOf(address) ==
    LET p == LastIndexOf(address, At)
    IN  IF p = -1 THEN <<>> ELSE Slice(address, p + 1, Len(address))

\* plus-sign folding: a '+suffix' of the local-part is dropped
foldPlusSign(local) ==
    LET p == IndexOf(local, Plus)
    IN  IF p = -1 THEN local ELSE Slice(local, 0, p)

\* deduplicated, order-preserving: each value at its first occurrence
RECURSIVE dedupe(_)
dedupe(list) ==
    IF list = <<>> THEN <<>>
    ELSE LET front == dedupe(SubSeq(list, 1, Len(list) - 1))
             x == list[Len(list)]
         IN  IF \E k \in 1..Len(front) : front[k] = x THEN front ELSE Append(front, x)

NoDelivery(error) ==
    [error |-> error, destinations |-> <<>>, fromEmail |-> <<>>,
     subjectPrefix |-> <<>>, plusSignFoldingEnabled |-> FALSE,
     sourceLocation |-> [container |-> <<>>, keyPrefix |-> <<>>]]

\* resolve (4.3), on the instruction a handler handed over, for one recipient
resolve(cfg, recipient) ==
    IF ~cfg.hasForwardMapping THEN NoDelivery("UnknownDomain")
    ELSE LET local == IF cfg.allowPlusSign
                      THEN foldPlusSign(localPartOf(recipient))
                      ELSE localPartOf(recipient)
             exact == Cat(Cat(local, At), domainOf(recipient))
             wildcard == Cat(At, domainOf(recipient))
             mapping == cfg.forwardMapping
         IN  IF exact \notin DOMAIN mapping /\ wildcard \notin DOMAIN mapping
             THEN NoDelivery("NoDestination")
             ELSE [error |-> "none",
                   destinations |-> dedupe(IF exact \in DOMAIN mapping
                                           THEN mapping[exact] ELSE mapping[wildcard]),
                   fromEmail |-> cfg.fromEmail,
                   subjectPrefix |-> cfg.subjectPrefix,
                   plusSignFoldingEnabled |-> cfg.allowPlusSign,
                   sourceLocation |-> [container |-> cfg.emailBucket,
                                       keyPrefix |-> cfg.emailKeyPrefix]]

\* what the forwarder resolves for the outcome of a handler invocation
resolved(result) ==
    IF result.forwarderCalls = 0 THEN NoDelivery("NotInvoked")
    ELSE resolve(result.overrides, result.sesRecords[1].ses.recipients[1])

\* how a call of the Delivery Invoker can end (4.4, 5)
deliveryOutcomes(result) ==
    IF result.forwarderCalls = 0 THEN {"none"}
    ELSE IF resolved(result).error # "none" THEN {"failed"}
    ELSE {"delivered", "failed", "timedOut"}

----------------------------------------------------------------------------
(* The stack's wiring of the dispatcher: maildog-stack.ts *)

\* line 151: the asynchronous invocation is not retried by the runtime
retryAttempts == 0

\* line 152: the Dispatcher function has a dead-letter queue
hasDeadLetterQueue == TRUE

----------------------------------------------------------------------------
(* State *)

NotRun ==
    [ran |-> FALSE, id |-> 0, event |-> [Records |-> <<>>],
     result |-> Threw("none", FALSE), delivery |-> "none"]

NoDrain == [ran |-> FALSE, maxBatch |-> 0, found |-> 0, received |-> 0, count |-> 0]

----------------------------------------------------------------------------
(* The receipt rules of the stack: maildog-stack.ts, lines 205-259 *)

\* line 209
maxRecipientsPerRule == 100

\* list.slice(from, to) on an array: `to` beyond the end stops at the end
ArraySlice(list, from, to) ==
    SubSeq(list, from + 1, IF to > Len(list) THEN Len(list) ELSE to)

\* lines 213-227: an alias without forwarding addresses is left out
hasForwardingAddresses(entry) == entry[2].hasTo /\ Len(entry[2].to) > 0

\* lines 210-227: the bare domain when fallback addresses exist, else the
\* addresses of the aliases that forward somewhere
receiptRuleRecipients(domain, rule) ==
    IF Len(rule.fallbackEmails) > 0
    THEN << domain >>
    ELSE LET kept == SelectSeq(rule.alias, hasForwardingAddresses)
         IN  [k \in 1..Len(kept) |-> Cat(Cat(kept[k][1], At), domain)]

\* chunks that only hold the full groups of maxRecipientsPerRule
receiptRuleChunks_FullOnly(list) ==
    [c \in 1..(Len(list) \div maxRecipientsPerRule) |->
        SubSeq(list, (c - 1) * maxRecipientsPerRule + 1, c * maxRecipientsPerRule)]

\* lines 228-235: the reduce over the first n elements of the list
RECURSIVE reduceChunks(_, _)
reduceChunks(list, n) ==
    IF n = 0 THEN <<>>
    ELSE LET chunks == reduceChunks(list, n - 1)
             i == n - 1
         IN  IF i % maxRecipientsPerRule = 0
             THEN Append(chunks, ArraySlice(list, i, i + maxRecipientsPerRule))
             ELSE chunks

receiptRuleChunks(list) == reduceChunks(list, Len(list))

\* lines 236-255: one rule per chunk, storing under '<domain>/'
receiptRulesOf(domain, rule) ==
    LET chunks == receiptRuleChunks(receiptRuleRecipients(domain, rule))
    IN  [c \in 1..Len(chunks) |->
            [recipients |-> chunks[c], objectKeyPrefix |-> Cat(domain, Slash)]]

\* lines 208, 257: flatMap over the first n domain rules
RECURSIVE flatMapRules(_, _)
flatMapRules(entries, n) ==
    IF n = 0 THEN <<>>
    ELSE flatMapRules(entries, n - 1) \o receiptRulesOf(entries[n][1], entries[n][2])

receiptRuleSetRules(domains) ==
    LET entries == domainRuleEntries(domains)
    IN  [synthesized |-> TRUE, rules |-> flatMapRules(entries, Len(entries))]

\* the stack is not constructed yet
NoRuleSet == [synthesized |-> FALSE, rules |-> <<>>]

\* an execution slot no invocation runs in
Idle ==
    [pc |-> "idle", event |-> [Records |-> <<>>], overrides |-> NoConfig,
     result |-> Threw("none", FALSE)]

InitWith(configs) ==
    /\ inflight = [slot \in 1..MaxInflight |-> Idle]
    /\ config \in configs
    /\ table = CONFIG_PER_KEY_PREFIX(config)
    /\ ruleset = receiptRuleSetRules(config)
    /\ variant \in {"lib", "part"}
    /\ last = NotRun
    /\ mailFeed = {}
    /\ deadLetterQueue = {}
    /\ attempts = <<>>
    /\ published = 0
    /\ history = <<>>
    /\ lastDrain = NoDrain

Init == InitWith(Configs)

pipelineVars == <<mailFeed, deadLetterQueue, attempts, published, history, lastDrain>>

\* the runtime invokes the deployed handler with one envelope; a handler keeps
\* nothing between invocations, so a behaviour follows one of them
Invoke(event) ==
    /\ ~last.ran
    /\ last' = [ran |-> TRUE, id |-> 0, event |-> event,
                result |-> handler(variant, table, event), delivery |-> "none"]
    /\ UNCHANGED <<ruleset, inflight, config, table, variant>>
    /\ UNCHANGED pipelineVars

Next == \E event \in Envelopes : Invoke(event)

Spec == Init /\ [][Next]_vars

----------------------------------------------------------------------------
(* The pipeline: MailFeed topic, Dispatcher, DeadLetterQueue, Scheduler *)

\* scenario A: alias info -> [a@x, b@x], no fallback
ConfigAliasOnly ==
    << <<DomainD, [hasFromEmail |-> FALSE, fromEmail |-> <<>>,
                   hasFallbackEmails |-> FALSE, fallbackEmails |-> <<>>,
                   alias |-> << <<AliasI, [hasTo |-> TRUE, to |-> <<DestA, DestB>>]>> >>]>> >>

PipelineConfigs == {ConfigAliasOnly}

\* what gets published on the topic: mail for info@d, mail for a domain
\* without a rule, and a message that is no receive notification
PipelineMessages ==
    {SesMessage(AliasI, DomainD, MessageIdM),
     SesMessage(AliasI, DomainU, MessageIdM),
     [BaseMessage EXCEPT !.hasReceipt = FALSE]}

InitPipeline == InitWith(PipelineConfigs)

\* a notification is published on the MailFeed topic (maildog-stack.ts,
\* lines 249-253: the S3 action of a receipt rule publishes there)
NewNotification(message, origin) ==
    [message |-> message, origin |-> origin, fate |-> "pending",
     failed |-> FALSE, error |-> "none", deadLettered |-> FALSE]

Publish(message) ==
    /\ published < MaxPublished
    /\ published' = published + 1
    /\ history' = Append(history, NewNotification(message, 0))
    /\ attempts' = Append(attempts, 0)
    /\ mailFeed' = mailFeed \cup {published + 1}
    /\ UNCHANGED <<ruleset, inflight, config, table, variant, last, deadLetterQueue, lastDrain>>

\* why an invocation failed: what the handler threw, else what the forwarder
\* could not resolve, else how the delivery ended; "none" for a success
failureOf(result, delivery) ==
    IF result.threw THEN result.error
    ELSE IF resolved(result).error # "none" THEN resolved(result).error
    ELSE IF delivery = "delivered" THEN "none"
    ELSE delivery

\* a runtime that retries a failed asynchronous invocation twice
asyncInvocationFate_Retrying(made, failed) ==
    IF ~failed THEN "forwarded"
    ELSE IF made <= 2 THEN "pending"
    ELSE "deadLettered"

\* maildog-stack.ts, lines 149-152: what the runtime does with an event after
\* its invocation number `made`: no retry beyond retryAttempts, then the
\* function's dead-letter queue
asyncInvocationFate(made, failed) ==
    IF ~failed THEN "forwarded"
    ELSE IF made <= retryAttempts THEN "pending"
    ELSE IF hasDeadLetterQueue THEN "deadLettered"
    ELSE "dropped"

\* the topic delivers notification id to the subscribed Dispatcher (lines
\* 307-311), which runs the handler; the delivery by the forwarder ends as
\* `delivery`
Dispatch(id, delivery) ==
    /\ id \in mailFeed
    /\ LET event == SnsEvent(history[id].message)
           result == handler(variant, table, event)
           failure == failureOf(result, delivery)
           fate == asyncInvocationFate(attempts[id] + 1, failure # "none")
       IN  /\ delivery \in deliveryOutcomes(result)
           /\ attempts' = [attempts EXCEPT ![id] = @ + 1]
           /\ history' = [history EXCEPT ![id].fate = fate,
                                         ![id].failed = (failure # "none"),
                                         ![id].error = failure,
                                         ![id].deadLettered = (fate = "deadLettered")]
           /\ mailFeed' = IF fate = "pending" THEN mailFeed ELSE mailFeed \ {id}
           /\ deadLetterQueue' = IF fate = "deadLettered"
                                 THEN deadLetterQueue \cup {id} ELSE deadLetterQueue
    /\ UNCHANGED <<ruleset, inflight, config, table, variant, last, published, lastDrain>>

\* lines 307-311: a notification the topic cannot deliver to the function
\* goes to the subscription's dead-letter queue, the same queue
SubscriptionDeadLetter(id) ==
    /\ id \in mailFeed
    /\ attempts[id] = 0
    /\ mailFeed' = mailFeed \ {id}
    /\ deadLetterQueue' = deadLetterQueue \cup {id}
    /\ history' = [history EXCEPT ![id].fate = "deadLettered",
                                  ![id].error = "undeliverable",
                                  ![id].deadLettered = TRUE]
    /\ UNCHANGED <<ruleset, inflight, config, table, variant, last, attempts, published, lastDrain>>

\* lines 93-95: the queue drops an entry older than its retention period
Expire(id) ==
    /\ id \in deadLetterQueue
    /\ deadLetterQueue' = deadLetterQueue \ {id}
    /\ history' = [history EXCEPT ![id].fate = "expired"]
    /\ UNCHANGED <<ruleset, inflight, config, table, variant, last, mailFeed, attempts, published, lastDrain>>

----------------------------------------------------------------------------
(* The Retry Scheduler.  Its code (maildog-stack.scheduler.ts) is not in     *)
(* src/; the run is modelled from the specification (4.5), with the queue    *)
(* and the topic the stack gives it (maildog-stack.ts, lines 265-300).       *)

\* a run that receives the whole queue, whatever maxBatch is
Min_First(a, b) == a

Min(a, b) == IF a <= b THEN a ELSE b

\* a run that acknowledges whatever it received
drainDeleted_All(received, republishedOk) == received

\* the entries a run acknowledges: those it republished successfully
drainDeleted(received, republishedOk) == republishedOk

\* the position of id in S, counted from 1 in increasing order
Rank(id, S) == Cardinality({j \in S : j <= id})

\* drain(maxBatch): receive up to maxBatch entries, republish each one's
\* original payload on the MailFeed topic, acknowledge the republished ones;
\* republishedOk are the entries whose republish succeeded
drain(maxBatch, received, republishedOk) ==
    /\ received \subseteq deadLetterQueue
    /\ Cardinality(received) = Min(Cardinality(deadLetterQueue), maxBatch)
    /\ republishedOk \subseteq received
    /\ LET n == Cardinality(republishedOk)
           source(k) == CHOOSE id \in republishedOk : Rank(id, republishedOk) = k
           deleted == drainDeleted(received, republishedOk)
       IN  /\ published' = published + n
           /\ history' = [id \in 1..(published + n) |->
                            IF id > published
                            THEN NewNotification(history[source(id - published)].message,
                                                 source(id - published))
                            ELSE IF id \in deleted
                            THEN [history[id] EXCEPT !.fate = "acknowledged"]
                            ELSE history[id]]
           /\ attempts' = [id \in 1..(published + n) |->
                            IF id > published THEN 0 ELSE attempts[id]]
           /\ mailFeed' = mailFeed \cup ((published + 1)..(published + n))
           /\ deadLetterQueue' = deadLetterQueue \ deleted
           /\ lastDrain' = [ran |-> TRUE, maxBatch |-> maxBatch,
                            found |-> Cardinality(deadLetterQueue),
                            received |-> Cardinality(received), count |-> n]
    /\ UNCHANGED <<ruleset, inflight, config, table, variant, last>>

\* a run of the scheduler in the pipeline, while the model may still publish
Drain(maxBatch, received, republishedOk) ==
    /\ published + Cardinality(republishedOk) <= MaxPublished
    /\ drain(maxBatch, received, republishedOk)

NextPipeline ==
    \/ \E message \in PipelineMessages : Publish(message)
    \/ \E id \in mailFeed : \E delivery \in {"none", "delivered", "failed", "timedOut"} :
            Dispatch(id, delivery)
    \/ \E id \in mailFeed : SubscriptionDeadLetter(id)
    \/ \E id \in deadLetterQueue : Expire(id)
    \/ \E maxBatch \in 1..MaxBatch :
            \E received \in SUBSET deadLetterQueue :
                \E republishedOk \in SUBSET received :
                    Drain(maxBatch, received, republishedOk)

SpecPipeline == InitPipeline /\ [][NextPipeline]_vars

----------------------------------------------------------------------------
(* The scheduler on a queue that holds entries: up to MaxQueued              *)
(* notifications for info@d were published and dispatched once, each         *)
(* delivery failed and the runtime moved each to the DeadLetterQueue.        *)

DeadLetteredNotification ==
    [NewNotification(SesMessage(AliasI, DomainD, MessageIdM), 0)
        EXCEPT !.fate = asyncInvocationFate(1, TRUE), !.failed = TRUE,
               !.error = "failed", !.deadLettered = TRUE]

InitDrain ==
    /\ config \in PipelineConfigs
    /\ table = CONFIG_PER_KEY_PREFIX(config)
    /\ variant \in {"lib", "part"}
    /\ last = NotRun
    /\ published \in 0..MaxQueued
    /\ history = [id \in 1..published |-> DeadLetteredNotification]
    /\ attempts = [id \in 1..published |-> 1]
    /\ mailFeed = {}
    /\ deadLetterQueue = 1..published
    /\ lastDrain = NoDrain
    /\ inflight = [slot \in 1..MaxInflight |-> Idle]
    /\ ruleset = receiptRuleSetRules(config)

NextDrain ==
    \E maxBatch \in 1..MaxBatch :
        \E received \in SUBSET deadLetterQueue :
            \E republishedOk \in SUBSET received :
                drain(maxBatch, received, republishedOk)

SpecDrain == InitDrain /\ [][NextDrain]_vars

----------------------------------------------------------------------------
(* Concurrent invocations of the handler: the runtime starts an invocation   *)
(* while others are still running; each one runs the handler's statements in *)
(* order, and all of them read the same CONFIG_PER_KEY_PREFIX.               *)

\* alias info -> [a@x], fallback [b@x]
ConfigAliasAndFallback ==
    << <<DomainD, [hasFromEmail |-> FALSE, fromEmail |-> <<>>,
                   hasFallbackEmails |-> TRUE, fallbackEmails |-> <<DestB>>,
                   alias |-> << <<AliasI, [hasTo |-> TRUE, to |-> <<DestA>>]>> >>]>> >>

ConcurrentConfigs == {ConfigAliasOnly, ConfigAliasAndFallback}

ConcurrentEnvelopes ==
    {SnsEvent(m) : m \in PipelineMessages \cup {SesMessage(LocalGhost, DomainD, MessageIdM)}}

InitConcurrent == InitWith(ConcurrentConfigs)

\* the table narrowed in place to the wildcard entry of the message's domain
tableAfterConfigure_InPlace(tbl, message) ==
    LET emailKeyPrefix == emailKeyPrefixOf(message)
    IN  IF emailKeyPrefix \notin DOMAIN tbl THEN tbl
        ELSE [tbl EXCEPT ![emailKeyPrefix].forwardMapping =
                [k \in DOMAIN @ \cap {atDomainOf(emailKeyPrefix)} |-> @[k]]]

\* maildog-stack.dispatcher.ts, lines 105-117 (part_000, lines 124-222): the
\* handler reads config[emailKeyPrefix] and spreads it into a new object; it
\* assigns nothing to config
tableAfterConfigure(tbl, message) == tbl

\* the runtime invokes the handler with an envelope
Begin(slot, event) ==
    /\ inflight[slot].pc = "idle"
    /\ inflight' = [inflight EXCEPT ![slot] = [Idle EXCEPT !.pc = "validate", !.event = event]]
    /\ UNCHANGED <<ruleset, config, table, variant, last>>
    /\ UNCHANGED pipelineVars

\* lines 65-82: the try block; a failed check is logged and rethrown
Validate(slot) ==
    /\ inflight[slot].pc = "validate"
    /\ LET error == validationError(inflight[slot].event)
       IN  inflight' = [inflight EXCEPT ![slot] =
                IF error # "none"
                THEN [@ EXCEPT !.pc = "done", !.result = Threw(error, TRUE)]
                ELSE [@ EXCEPT !.pc = "configure"]]
    /\ UNCHANGED <<ruleset, config, table, variant, last>>
    /\ UNCHANGED pipelineVars

\* lines 91-117 (part_000, lines 113-222): the prefix, the table entry, the
\* overrides
Configure(slot) ==
    /\ inflight[slot].pc = "configure"
    /\ LET message == getSESMessage(inflight[slot].event).message
       IN  /\ inflight' = [inflight EXCEPT ![slot] =
                IF variant = "part" /\ emailKeyPrefixOf(message) \notin DOMAIN table
                THEN [@ EXCEPT !.pc = "done", !.result = Threw("TypeError", FALSE)]
                ELSE [@ EXCEPT !.pc = "forward",
                               !.overrides = IF variant = "lib"
                                             THEN overridesLib(table, message)
                                             ELSE overridesPart(table, message)]]
           /\ table' = tableAfterConfigure(table, message)
    /\ UNCHANGED <<ruleset, config, variant, last>>
    /\ UNCHANGED pipelineVars

\* line 142 (part_000, line 245): the call of LambdaForwarder.handler
Forward(slot) ==
    /\ inflight[slot].pc = "forward"
    /\ inflight' = [inflight EXCEPT ![slot] =
            [@ EXCEPT !.pc = "done",
                      !.result = Forwarded(getSESMessage(inflight[slot].event).message,
                                           inflight[slot].overrides)]]
    /\ UNCHANGED <<ruleset, config, table, variant, last>>
    /\ UNCHANGED pipelineVars

NextConcurrent ==
    \E slot \in 1..MaxInflight :
        \/ \E event \in ConcurrentEnvelopes : Begin(slot, event)
        \/ Validate(slot)
        \/ Configure(slot)
        \/ Forward(slot)

SpecConcurrent == InitConcurrent /\ [][NextConcurrent]_vars

----------------------------------------------------------------------------
(* The construction of the stack for a domain with many aliases *)

Digits == <<"0", "1", "2", "3", "4", "5", "6", "7", "8", "9">>

\* the k-th alias local-part: 'n000', 'n001', ...
AliasName(k) ==
    <<"n", Digits[((k \div 100) % 10) + 1], Digits[((k \div 10) % 10) + 1],
           Digits[(k % 10) + 1]>>

\* a rule for DomainD with n aliases forwarding to a@x, except that the alias
\* at position `without` (if any) has no 'to' or an empty one
RuleConfig(n, fallbackEmails, without, withoutRule) ==
    << <<DomainD,
         [hasFromEmail |-> FALSE, fromEmail |-> <<>>,
          hasFallbackEmails |-> TRUE, fallbackEmails |-> fallbackEmails,
          alias |-> [k \in 1..n |->
                        <<AliasName(k),
                          IF k = without THEN withoutRule
                          ELSE [hasTo |-> TRUE, to |-> <<DestA>>]>>]]>> >>

RuleConfigs ==
    {RuleConfig(n, f, w, r) :
        n \in 0..MaxAliases, f \in {<<>>, <<DestB>>}, w \in {0, 1},
        r \in {[hasTo |-> FALSE, to |-> <<>>], [hasTo |-> TRUE, to |-> <<>>]}}

InitRules ==
    /\ config \in RuleConfigs
    /\ table = <<>>
    /\ ruleset = NoRuleSet
    /\ variant \in {"lib", "part"}
    /\ last = NotRun
    /\ mailFeed = {}
    /\ deadLetterQueue = {}
    /\ attempts = <<>>
    /\ published = 0
    /\ history = <<>>
    /\ lastDrain = NoDrain
    /\ inflight = [slot \in 1..MaxInflight |-> Idle]

\* lines 40-259: the constructor compiles the table and generates the rules
Construct ==
    /\ ~ruleset.synthesized
    /\ table' = CONFIG_PER_KEY_PREFIX(config)
    /\ ruleset' = receiptRuleSetRules(config)
    /\ UNCHANGED <<config, variant, last, inflight>>
    /\ UNCHANGED pipelineVars

NextRules == Construct

SpecRules == InitRules /\ [][NextRules]_vars

----------------------------------------------------------------------------
(* What the properties speak about *)

\* the latest invocation got an envelope that passes every validation check
LastValid == last.ran /\ validationError(last.event) = "none"

\* its message and recipient (only for a single-record envelope)
LastMessage == last.event.Records[1].Sns.Message
LastRecipient == LastMessage.recipients[1]

\* the authored rule of the configured domain, defaults applied
TheDomain == domainRuleEntries(config)[1][1]
TheRule == domainRuleEntries(config)[1][2]
ThePrefix == Cat(TheDomain, Slash)
TheMapping == table[ThePrefix].forwardMapping

\* the destination lists authored for an alias name (at most one)
AliasTo(name) ==
    {IF TheRule.alias[k][2].hasTo THEN TheRule.alias[k][2].to ELSE <<>> :
        k \in {j \in 1..Len(TheRule.alias) : TheRule.alias[j][1] = name}}

HasAlias(name) == AliasTo(name) # {}

\* the latest invocation is a validated event stored under the configured
\* domain's prefix, for a recipient at that domain
LastAtDomain ==
    /\ LastValid
    /\ emailKeyPrefixOf(LastMessage) = ThePrefix
    /\ domainOf(LastRecipient) = TheDomain

----------------------------------------------------------------------------
(* C1: an envelope with 0 or 2+ records, or whose record's source is not    *)
(* 'aws:sns', or whose payload lacks the mail or the receipt section, or    *)
(* whose receipt action is not of type 'S3', makes the handler log the      *)
(* error and throw it, and LambdaForwarder.handler is never called.         *)

C1_MustReject(event) ==
    IF Len(event.Records) # 1 THEN TRUE
    ELSE IF event.Records[1].EventSource # "aws:sns" THEN TRUE
    ELSE LET m == event.Records[1].Sns.Message
         IN  m.parses /\ (~m.hasMail \/ ~m.hasReceipt \/ m.actionType # "S3")

C1_ValidationRejects ==
    (last.ran /\ C1_MustReject(last.event))
        => /\ last.result.threw
           /\ last.result.logged
           /\ last.result.forwarderCalls = 0

C1_Witness ==
    /\ last.ran
    /\ Len(last.event.Records) = 1
    /\ last.event.Records[1].EventSource = "aws:sns"
    /\ isSESMessage(LastMessage)
    /\ LastMessage.actionType # "S3"
    /\ last.result.threw
    /\ last.result.error = "NotS3Action"

----------------------------------------------------------------------------
(* C2: exact-match precedence.  For a recipient alias@domain whose alias has *)
(* a non-empty destination list, the instruction the handler hands to the    *)
(* forwarder resolves the recipient to exactly the alias's destinations,     *)
(* with or without fallback addresses, in both handler variants.             *)

C2_ExactMatchPrecedence ==
    \A name \in {AliasNames[k] : k \in 1..Len(AliasNames)} :
        \A to \in AliasTo(name) :
            (/\ LastAtDomain
             /\ localPartOf(LastRecipient) = name
             /\ Len(to) > 0)
                => /\ last.result.forwarderCalls = 1
                   /\ resolved(last.result).error = "none"
                   /\ resolved(last.result).destinations = dedupe(Strs(to))

----------------------------------------------------------------------------
(* C3: a domain with non-empty fallbackAddresses has a forwardMapping entry  *)
(* '@<domain>' holding the fallbackAddresses, and an event for a local-part  *)
(* without an explicit alias resolves to exactly that flat list of           *)
(* addresses.                                                                *)

C3_WildcardCompiled ==
    Len(TheRule.fallbackEmails) > 0
        => /\ Cat(At, TheDomain) \in DOMAIN TheMapping
           /\ TheMapping[Cat(At, TheDomain)] = TheRule.fallbackEmails

C3_WildcardFallback ==
    /\ C3_WildcardCompiled
    /\ (/\ LastAtDomain
        /\ Len(TheRule.fallbackEmails) > 0
        /\ ~HasAlias(localPartOf(LastRecipient))
        /\ ~HasAlias(foldPlusSign(localPartOf(LastRecipient))))
            => /\ resolved(last.result).error = "none"
               /\ resolved(last.result).destinations
                    = dedupe(Strs(TheRule.fallbackEmails))

----------------------------------------------------------------------------
(* C4: a validated event whose recipient matches neither an alias entry nor  *)
(* the wildcard entry of its domain's forwardMapping ends in NoDestination,  *)
(* and the forwarder is not called for it.                                   *)

C4_Unmatched ==
    /\ LastAtDomain
    /\ Cat(Cat(foldPlusSign(localPartOf(LastRecipient)), At), TheDomain)
            \notin DOMAIN TheMapping
    /\ Cat(At, TheDomain) \notin DOMAIN TheMapping

C4_NoDestinationNotInvoked ==
    C4_Unmatched
        => /\ last.result.threw
           /\ last.result.error = "NoDestination"
           /\ last.result.forwarderCalls = 0

----------------------------------------------------------------------------
(* C5: a validated event whose storage key prefix has no entry in the        *)
(* compiled table makes the handler log and throw an error, and the          *)
(* forwarder is not called, in both handler variants.                        *)

C5_UnknownPrefix ==
    /\ LastValid
    /\ emailKeyPrefixOf(LastMessage) \notin DOMAIN table

C5_UnknownDomainRaised ==
    C5_UnknownPrefix
        => /\ last.result.threw
           /\ last.result.logged
           /\ last.result.forwarderCalls = 0

----------------------------------------------------------------------------
(* C9: every alias with a non-empty destination list has a forwardMapping    *)
(* entry under '<alias>@<domain>', and an alias whose destination list is     *)
(* empty or missing has no entry at all.                                      *)

C9_AliasEntries ==
    \A k \in 1..Len(TheRule.alias) :
        LET key == Cat(Cat(TheRule.alias[k][1], At), TheDomain)
            entry == TheRule.alias[k][2]
        IN  IF entry.hasTo /\ Len(entry.to) > 0
            THEN key \in DOMAIN TheMapping
            ELSE key \notin DOMAIN TheMapping

----------------------------------------------------------------------------
(* C10: resolving a recipient whose alias has an empty destination list       *)
(* gives what resolving it against the configuration without that alias       *)
(* gives: the fallback addresses if there are any, NoDestination otherwise.   *)

\* the configuration with the alias `name` removed
WithoutAlias(name) ==
    LET rule == config[1][2]
        keep == {k \in 1..Len(rule.alias) : rule.alias[k][1] # name}
        pick(i) == CHOOSE k \in keep : Cardinality({j \in keep : j < k}) = i - 1
    IN  << <<config[1][1],
             [rule EXCEPT !.alias = [i \in 1..Cardinality(keep) |-> rule.alias[pick(i)]]]>> >>

C10_EmptyAliasCase(name) ==
    /\ LastAtDomain
    /\ foldPlusSign(localPartOf(LastRecipient)) = name
    /\ AliasTo(name) = {<<>>}

C10_EmptyAliasIsAbsent ==
    \A name \in {AliasNames[k] : k \in 1..Len(AliasNames)} :
        C10_EmptyAliasCase(name)
            => LET without == handler(variant, CONFIG_PER_KEY_PREFIX(WithoutAlias(name)),
                                      last.event)
               IN  /\ resolved(last.result) = resolved(without)
                   /\ IF Len(TheRule.fallbackEmails) > 0
                      THEN resolved(last.result).destinations
                                = dedupe(Strs(TheRule.fallbackEmails))
                      ELSE resolved(last.result).error = "NoDestination"

----------------------------------------------------------------------------
(* C6: a dispatch invocation that fails (validation error, resolution error, *)
(* delivery failure, timeout of the delivery) puts the event on the          *)
(* dead-letter queue, and nothing is retried locally: a notification gets at *)
(* most one handler invocation before it is forwarded or dead-lettered.      *)

Ids == 1..published

C6_FailureDeadLetteredOnce ==
    \A id \in Ids :
        /\ attempts[id] <= 1
        /\ history[id].failed => history[id].deadLettered
        /\ history[id].fate = "deadLettered" => id \in deadLetterQueue
        /\ attempts[id] = 1 => id \notin mailFeed

C6_Witness ==
    \E id \in Ids :
        /\ attempts[id] = 1
        /\ history[id].failed
        /\ history[id].error = "timedOut"
        /\ id \in deadLetterQueue

----------------------------------------------------------------------------
(* C7: a scheduler run acknowledges an entry only after republishing its     *)
(* payload on the MailFeed topic; an entry whose republish failed stays in   *)
(* the queue.  So a dead-lettered event is always still in the queue or      *)
(* republished at least once, the queue's own retention expiry aside.        *)

Republished(id) ==
    \E again \in Ids :
        /\ history[again].origin = id
        /\ history[again].message = history[id].message

C7_NeverSilentlyDropped ==
    \A id \in Ids :
        history[id].deadLettered
            => \/ id \in deadLetterQueue
               \/ history[id].fate = "expired"
               \/ Republished(id)

C7_AckOnlyAfterRepublish ==
    /\ C7_NeverSilentlyDropped
    /\ \A id \in Ids : history[id].fate = "acknowledged" => Republished(id)

C7_Witness ==
    /\ lastDrain.ran
    /\ \E id \in Ids :
        /\ history[id].fate = "acknowledged"
        /\ id \notin deadLetterQueue
        /\ Republished(id)

\* a run whose republish failed left its entry in the queue
C7_WitnessKept ==
    /\ lastDrain.ran
    /\ lastDrain.found > 0
    /\ lastDrain.count = 0
    /\ deadLetterQueue # {}

----------------------------------------------------------------------------
(* C8: an event whose dispatch ended in a resolution error (unknown domain,  *)
(* no destination) is never republished to the dispatcher by the             *)
(* dead-letter queue and the scheduler.                                      *)

ResolutionErrors == {"UnknownDomain", "NoDestination", "TypeError"}

Redispatched(id) ==
    \E again \in Ids :
        /\ history[again].origin = id
        /\ history[again].message = history[id].message
        /\ attempts[again] >= 1

C8_ResolutionErrorNotRetried ==
    \A id \in Ids :
        history[id].error \in ResolutionErrors => ~Redispatched(id)

----------------------------------------------------------------------------
(* C11: for an accepted event whose object key is <prefix><messageId>, the   *)
(* storage key prefix the handler derives is <prefix>: only the trailing     *)
(* messageId is removed, also when its text occurs inside <prefix>.          *)

\* the object key ends with the messageId
C11_KeyEndsWithMessageId ==
    /\ LastValid
    /\ Len(LastMessage.messageId) <= Len(LastMessage.objectKey)
    /\ OccursAt(LastMessage.objectKey, LastMessage.messageId,
                Len(LastMessage.objectKey) - Len(LastMessage.messageId))

C11_PrefixIsKeyWithoutTrailingId ==
    C11_KeyEndsWithMessageId
        => emailKeyPrefixOf(LastMessage)
             = Slice(LastMessage.objectKey, 0,
                     Len(LastMessage.objectKey) - Len(LastMessage.messageId))

----------------------------------------------------------------------------
(* C13: the destination list handed to the forwarder holds each address at   *)
(* most once, in the order of first occurrence in the configured list, also  *)
(* when the configured list repeats an address.                              *)

C13_HandedListsDeduplicated ==
    (last.ran /\ last.result.forwarderCalls = 1 /\ last.result.overrides.hasForwardMapping)
        => \A key \in DOMAIN last.result.overrides.forwardMapping :
              LET list == last.result.overrides.forwardMapping[key]
              IN  \A i, j \in 1..Len(list) : list[i] = list[j] => i = j

----------------------------------------------------------------------------
(* C15: a notification whose receipt action is of type 'S3' but whose object *)
(* key or bucket name is the empty string is rejected: the handler logs and  *)
(* throws, and the forwarder is not called.                                  *)

C15_EmptyLocation ==
    /\ last.ran
    /\ Len(last.event.Records) = 1
    /\ last.event.Records[1].EventSource = "aws:sns"
    /\ LastMessage.parses
    /\ isSESMessage(LastMessage)
    /\ LastMessage.actionType = "S3"
    /\ LastMessage.hasObjectKey
    /\ LastMessage.hasBucketName
    /\ (LastMessage.objectKey = <<>> \/ LastMessage.bucketName = <<>>)

C15_EmptyLocationRejected ==
    C15_EmptyLocation
        => /\ last.result.threw
           /\ last.result.logged
           /\ last.result.error = "NotS3Action"
           /\ last.result.forwarderCalls = 0

----------------------------------------------------------------------------
(* C18: a configuration with the domain name '' is rejected and yields no    *)
(* compiled table; no entry under the bare prefix '/' is ever produced.      *)

C18_EmptyDomainRejected ==
    /\ (\E i \in 1..Len(config) : config[i][1] = EmptyDomain) => DOMAIN table = {}
    /\ Slash \notin DOMAIN table

----------------------------------------------------------------------------
(* C20: the compiled forwardMapping of a domain holds the key '@<domain>'    *)
(* exactly when the domain's fallbackEmails is non-empty, and its value is   *)
(* then the fallbackEmails, also when an alias '' is configured.             *)

C20_WildcardIffFallback ==
    /\ (Cat(At, TheDomain) \in DOMAIN TheMapping) <=> (Len(TheRule.fallbackEmails) > 0)
    /\ Len(TheRule.fallbackEmails) > 0
            => TheMapping[Cat(At, TheDomain)] = TheRule.fallbackEmails

----------------------------------------------------------------------------
(* C12: a notification for user+tag@domain resolves to the same delivery     *)
(* (destinations, sender, source location) as the otherwise identical        *)
(* notification for user@domain: the '+tag' is dropped before the lookup.    *)

C12_PlusSignFolded ==
    \A d \in {DomainD, DomainU}, m \in {MessageIdM, DomainD} :
        (last.ran /\ last.event = SnsEvent(SesMessage(LocalTagged, d, m)))
            => resolved(last.result)
                 = resolved(handler(variant, table, SnsEvent(SesMessage(AliasI, d, m))))

\* 'i+t@d' resolved to the destinations of the alias 'i', with no fallback set
C12_Witness ==
    /\ last.ran
    /\ last.event = SnsEvent(SesMessage(LocalTagged, DomainD, MessageIdM))
    /\ variant = "lib"
    /\ TheDomain = DomainD
    /\ Len(TheRule.fallbackEmails) = 0
    /\ resolved(last.result).error = "none"
    /\ resolved(last.result).destinations = << Str(DestA) >>

----------------------------------------------------------------------------
(* C14: every instruction handed to the forwarder carries allowPlusSign =    *)
(* true, the event's bucketName as emailBucket and the derived prefix as     *)
(* emailKeyPrefix.  As stated, it also carries subjectPrefix = '' in both    *)
(* handlers; amended, part_000 carries subjectPrefix = '' and                *)
(* maildog-stack.dispatcher.ts carries no subjectPrefix at all.              *)

C14_Handed == last.ran /\ last.result.forwarderCalls = 1

C14_LocationAndPlusSign ==
    /\ last.result.overrides.allowPlusSign
    /\ last.result.overrides.emailBucket = LastMessage.bucketName
    /\ last.result.overrides.emailKeyPrefix = emailKeyPrefixOf(LastMessage)

\* as stated
C14_FixedFieldsBothVariants ==
    C14_Handed
        => /\ C14_LocationAndPlusSign
           /\ last.result.overrides.hasSubjectPrefix
           /\ last.result.overrides.subjectPrefix = <<>>

\* amended
C14_FixedFields ==
    C14_Handed
        => /\ C14_LocationAndPlusSign
           /\ last.result.overrides.hasSubjectPrefix <=> (variant = "part")
           /\ last.result.overrides.subjectPrefix = <<>>

\* maildog-stack.dispatcher.ts handed an instruction without a subjectPrefix
C14_Witness ==
    /\ C14_Handed
    /\ variant = "lib"
    /\ ~last.result.overrides.hasSubjectPrefix
    /\ last.result.overrides.allowPlusSign
    /\ last.result.overrides.emailBucket = Bucket
    /\ last.result.overrides.emailKeyPrefix = Cat(DomainD, Slash)

----------------------------------------------------------------------------
(* C19: the handler calls LambdaForwarder.handler at most once, and exactly  *)
(* once, with a simulated SES event holding exactly the one validated        *)
(* message, whenever the envelope passes validation and its derived prefix   *)
(* has an entry in the table.                                                *)

C19_ForwarderOnce ==
    last.ran
        => /\ last.result.forwarderCalls <= 1
           /\ (LastValid /\ emailKeyPrefixOf(LastMessage) \in DOMAIN table)
                => /\ ~last.result.threw
                   /\ last.result.forwarderCalls = 1
                   /\ last.result.sesRecords
                        = << [eventSource |-> "aws:ses", eventVersion |-> "1.0",
                              ses |-> LastMessage] >>

\* part_000 called the forwarder for a domain without a fallback
C19_Witness ==
    /\ LastValid
    /\ emailKeyPrefixOf(LastMessage) \in DOMAIN table
    /\ variant = "part"
    /\ Len(TheRule.fallbackEmails) = 0
    /\ last.result.forwarderCalls = 1
    /\ last.result.sesRecords[1].ses = LastMessage

----------------------------------------------------------------------------
(* C16: a run drain(maxBatch = k) on a queue holding n entries receives      *)
(* min(n, k) of them; when every republish succeeds it republishes exactly   *)
(* those, returns that count and leaves n - min(n, k) entries; on an empty   *)
(* queue it returns 0.                                                       *)

C16_RunOfDrain ==
    LET n == Cardinality(deadLetterQueue)
        k == lastDrain'.maxBatch
        batch == IF n <= k THEN n ELSE k
    IN  /\ lastDrain'.ran
        /\ lastDrain'.found = n
        /\ lastDrain'.received = batch
        /\ lastDrain'.count = published' - published
        /\ lastDrain'.count = Cardinality(mailFeed' \ mailFeed)
        /\ lastDrain'.count <= batch
        \* every republish succeeded
        /\ lastDrain'.count = lastDrain'.received
              => /\ lastDrain'.count = batch
                 /\ Cardinality(deadLetterQueue') = n - batch
                 /\ deadLetterQueue' \subseteq deadLetterQueue
        /\ n = 0 => (lastDrain'.count = 0 /\ deadLetterQueue' = {})

C16_DrainRepublishesBatch == [][C16_RunOfDrain]_vars

\* scenario D: three entries, drain(2) republished two and left one
C16_Witness ==
    /\ lastDrain.ran
    /\ lastDrain.maxBatch = 2
    /\ lastDrain.found = 3
    /\ lastDrain.count = 2
    /\ published = 5
    /\ Cardinality(deadLetterQueue) = 1
    /\ Cardinality(mailFeed) = 2

----------------------------------------------------------------------------
(* C17: dispatch is a pure function of (event, table): no invocation changes *)
(* the table; under any interleaving of concurrent invocations the outcome   *)
(* of each is the one the handler produces for its event alone; the same     *)
(* event dispatched twice yields identical instructions.                     *)

\* the outcome of the handler for the event alone, on the deployed table
C17_Alone(event) == handler(variant, CONFIG_PER_KEY_PREFIX(config), event)

C17_DispatchIsPure ==
    /\ table = CONFIG_PER_KEY_PREFIX(config)
    /\ \A slot \in 1..MaxInflight :
          inflight[slot].pc = "done"
              => inflight[slot].result = C17_Alone(inflight[slot].event)
    /\ \A s1, s2 \in 1..MaxInflight :
          (inflight[s1].pc = "done" /\ inflight[s2].pc = "done"
                /\ inflight[s1].event = inflight[s2].event)
              => inflight[s1].result = inflight[s2].result

\* an invocation for i@d ended while one for g@d, started before it ended,
\* had read the table and was about to call the forwarder
C17_Witness ==
    \E s1, s2 \in 1..MaxInflight :
        /\ inflight[s1].pc = "done"
        /\ inflight[s1].event = SnsEvent(SesMessage(AliasI, DomainD, MessageIdM))
        /\ inflight[s1].result.forwarderCalls = 1
        /\ inflight[s2].pc = "forward"
        /\ inflight[s2].event = SnsEvent(SesMessage(LocalGhost, DomainD, MessageIdM))
        /\ inflight[s2].overrides.hasForwardMapping

----------------------------------------------------------------------------
(* C21: the receipt rules generated for a domain partition its recipient     *)
(* list: every rule holds at least 1 and at most 100 recipients, and the     *)
(* rules' recipient lists, concatenated in rule order, are the domain's      *)
(* recipient list (the bare domain when fallback addresses exist, else the   *)
(* addresses of the aliases with a non-empty destination list, in order).    *)

\* an alias with a non-empty destination list
C21_Forwards(entry) == entry[2].hasTo /\ entry[2].to # <<>>

\* the domain's recipient list
C21_Recipients ==
    IF TheRule.fallbackEmails # <<>>
    THEN << TheDomain >>
    ELSE LET forwarding == SelectSeq(TheRule.alias, C21_Forwards)
         IN  [p \in 1..Len(forwarding) |-> Cat(Cat(forwarding[p][1], At), TheDomain)]

\* the recipient lists of the first n rules, concatenated
RECURSIVE C21_Concatenated(_)
C21_Concatenated(n) ==
    IF n = 0 THEN <<>>
    ELSE C21_Concatenated(n - 1) \o ruleset.rules[n].recipients

C21_RulesPartitionRecipients ==
    ruleset.synthesized
        => /\ \A r \in 1..Len(ruleset.rules) :
                /\ Len(ruleset.rules[r].recipients) >= 1
                /\ Len(ruleset.rules[r].recipients) <= 100
           /\ C21_Concatenated(Len(ruleset.rules)) = C21_Recipients

\* 101 recipients: a rule of 100 and a rule of 1
C21_Witness ==
    /\ ruleset.synthesized
    /\ Len(C21_Recipients) = 101
    /\ Len(ruleset.rules) = 2
    /\ Len(ruleset.rules[1].recipients) = 100
    /\ Len(ruleset.rules[2].recipients) = 1

====
